---- MODULE Spec2Model ----
(***************************************************************************)
(* nostr_vanity: the concurrent vanity-address search (src/src/main.rs),   *)
(* the pattern matcher (src/src/matcher.rs) and the pattern validation     *)
(* (src/src/generator.rs).                                                 *)
(*                                                                         *)
(* A string is a sequence of one-character strings: "ac" is <<"a", "c">>.  *)
(***************************************************************************)
EXTENDS Integers, Sequences, FiniteSets, TLC

VARIABLES
    args,           \* the parsed command line with the collected pattern list
    mpc,            \* main thread: position in main / run_search
    poolConfigured, \* rayon::ThreadPoolBuilder::build_global has run
    matcher,        \* PatternMatcher.patterns (<<>> until built)
    found,          \* AtomicBool found
    attempts,       \* AtomicU64 attempts
    chanOpen,       \* unbounded() has created the channel
    chan,           \* messages in flight on the Match Channel
    txMain,         \* main still holds its Sender
    txSearch,       \* the search thread still holds its Sender clone
    rxAlive,        \* the Receiver has not been dropped
    spc,            \* search thread: position in its loop
    batches,        \* number of batches started
    slot,           \* per batch index: "todo" | "run" | "done"
    res,            \* per batch index: the closure's result (None or a match)
    results,        \* the collected Vec of the batch, in index order
    wpc,            \* per pool worker: position in the closure
    wslot,          \* per pool worker: the batch index it is running
    opc,            \* output thread: position in its loop
    records,        \* the VanityResults the output thread has emitted
    file,           \* the output target args.output: on disk or not, its rows
    genCalls,       \* history: NostrKeyPair::generate calls made
    genMatching,    \* history: generated candidates some pattern matches
    genErrs,        \* history: NostrKeyPair::generate calls that returned Err
    sendCalls,      \* history: tx.send calls made
    sendLost,       \* history: tx.send calls that returned Err
    fnIn,           \* input of the function under test (function specs)
    fnOut           \* its result

vars == <<args, mpc, poolConfigured, matcher, found, attempts, chanOpen, chan,
          txMain, txSearch, rxAlive, spc, batches, slot, res, results, wpc,
          wslot, opc, records, file, genCalls, genMatching, genErrs,
          sendCalls, sendLost, fnIn, fnOut>>

None == [none |-> TRUE]

(***************************************************************************)
(* Bounds of the model.                                                    *)
(***************************************************************************)
\* slots of one batch (batch_size, 10000 in the program)
BatchSize == 2
\* threads of the rayon pool (args.threads)
NumWorkers == 2
\* cap of the attempts counter: no batch starts that could pass it
MaxAttempts == 4
\* longest string handed to validate_bech32_chars in its own specification
MaxStrLen == 3
\* longest pattern list handed to find_match in its own specification
MaxPatterns == 2
\* characters after "npub1" of the identifiers handed to find_match there
DataLen == 2
\* writes made to one output target in the writers' own specification
MaxWrites == 3
\* largest keys_per_sec handed to estimate_time in its own specification
MaxRate == 8

Workers == 1..NumWorkers
Slots == 1..BatchSize

(***************************************************************************)
(* Strings.                                                                *)
(***************************************************************************)
\* str::to_lowercase on the characters the model uses
LowerChar(c) ==
    CASE c = "A" -> "a"
      [] c = "C" -> "c"
      [] c = "B" -> "b"
      [] OTHER -> c

to_lowercase(s) == [i \in 1..Len(s) |-> LowerChar(s[i])]

\* str::starts_with
starts_with(s, v) == Len(v) <= Len(s) /\ SubSeq(s, 1, Len(v)) = v

\* str::ends_with
ends_with(s, v) ==
    Len(v) <= Len(s) /\ SubSeq(s, Len(s) - Len(v) + 1, Len(s)) = v

\* str::contains with a string pattern
contains(s, v) ==
    \E k \in 0..(Len(s) - Len(v)) : SubSeq(s, k + 1, k + Len(v)) = v

\* str::contains with a char pattern
contains_char(s, c) == \E i \in 1..Len(s) : s[i] = c

(***************************************************************************)
(* generator.rs                                                            *)
(***************************************************************************)
VALID_CHARS ==
    <<"0", "2", "3", "4", "5", "6", "7", "8", "9", "a", "c", "d", "e", "f",
      "g", "h", "j", "k", "l", "m", "n", "p", "q", "r", "s", "t", "u", "v",
      "w", "x", "y", "z">>

validate_bech32_chars_any(pattern) ==
    \E i \in 1..Len(pattern) : contains_char(VALID_CHARS, pattern[i])

validate_bech32_chars(pattern) ==
    \A i \in 1..Len(pattern) : contains_char(VALID_CHARS, pattern[i])

(***************************************************************************)
(* matcher.rs                                                              *)
(***************************************************************************)
MatchTypes == {"Prefix", "Suffix", "Contains"}

\* Pattern::new
PatternNew(value, match_type, case_sensitive) ==
    [value |-> IF case_sensitive THEN value ELSE to_lowercase(value),
     match_type |-> match_type,
     case_sensitive |-> case_sensitive]

\* &npub[5..]
StripPrefix(npub) == SubSeq(npub, 6, Len(npub))

\* Pattern::matches
PatternMatches(p, npub) ==
    LET npub_without_prefix == StripPrefix(npub)
        compare_str == IF p.case_sensitive
                       THEN npub_without_prefix
                       ELSE to_lowercase(npub_without_prefix)
    IN CASE p.match_type = "Prefix" -> starts_with(compare_str, p.value)
         [] p.match_type = "Suffix" -> ends_with(compare_str, p.value)
         [] p.match_type = "Contains" -> contains(compare_str, p.value)

\* PatternMatcher::from_strings
from_strings(values, match_type, case_sensitive) ==
    [i \in 1..Len(values) |-> PatternNew(values[i], match_type, case_sensitive)]

RECURSIVE find_match_from(_, _, _)
find_match_from(pats, npub, i) ==
    IF i > Len(pats) THEN None
    ELSE IF PatternMatches(pats[i], npub) THEN pats[i]
    ELSE find_match_from(pats, npub, i + 1)

RECURSIVE find_match_last_from(_, _, _)
find_match_last_from(pats, npub, i) ==
    IF i < 1 THEN None
    ELSE IF PatternMatches(pats[i], npub) THEN pats[i]
    ELSE find_match_last_from(pats, npub, i - 1)

find_match_last(pats, npub) == find_match_last_from(pats, npub, Len(pats))

\* PatternMatcher::find_match
find_match(pats, npub) == find_match_from(pats, npub, 1)

(***************************************************************************)
(* Inputs of the run.                                                      *)
(***************************************************************************)
Npub1 == <<"n", "p", "u", "b", "1">>

\* what collect_patterns can return: nothing, a valid list (its first
\* pattern matches no generated candidate, its second matches one), a list
\* with one invalid pattern after a valid one, a list with an uppercase
\* pattern
ArgPatternLists ==
    { <<>>,
      << <<"c", "c">>, <<"a">> >>,
      << <<"a">>, <<"a", "1">> >>,
      << <<"B">> >> }

\* what NostrKeyPair::generate can return: Err, or Ok with one of these npubs
GenNpubs == { Npub1 \o <<"a", "c">>, Npub1 \o <<"c", "a">> }
GenErr == [ok |-> FALSE]
GenOutcomes == {[ok |-> TRUE, npub |-> n] : n \in GenNpubs} \cup {GenErr}

\* output is TRUE for Some(path); csv is only read when output is Some.
ArgSets ==
    {a \in [patterns : ArgPatternLists,
            match_type : {"Prefix"},
            case_sensitive : {FALSE},
            continuous : BOOLEAN,
            quiet : BOOLEAN,
            estimate : BOOLEAN,
            output : BOOLEAN,
            csv : BOOLEAN] : a.csv => a.output}

(***************************************************************************)
(* src/src/utils.rs: the two writers of the output target. A target is    *)
(* [exists, rows]; a row is a record of its kind. Each writer returns the  *)
(* target it leaves and ok, TRUE for Ok(()) and FALSE for Err. The outcome *)
(* names the call that fails: "open_err" is OpenOptions::open, "header_err"*)
(* the writeln! of the header, "row_err" the writeln! of the result; a     *)
(* writeln! that fails leaves no row.                                      *)
(***************************************************************************)
NoFile == [exists |-> FALSE, rows |-> <<>>]
HeaderRow == [kind |-> "header"]

\* VanityResult::format_csv: one line of the result's fields
format_csv(result) ==
    [kind |-> "record", pattern |-> result.matched_pattern,
     npub |-> result.keypair, attempts |-> result.attempts]

\* VanityResult::format_output: one block of the result's fields
format_output(result) ==
    [kind |-> "block", pattern |-> result.matched_pattern,
     npub |-> result.keypair, attempts |-> result.attempts]

\* the calls of write_result_to_file that can fail
TextOutcomes == {"ok", "open_err", "row_err"}

\* the calls of write_csv_result that can fail on target f
CsvOutcomes(f) ==
    IF f.exists THEN {"ok", "open_err", "row_err"}
    ELSE {"ok", "open_err", "header_err", "row_err"}

write_result_to_file(result, f, outcome) ==
    IF outcome = "open_err" THEN [file |-> f, ok |-> FALSE]
    ELSE LET opened == [exists |-> TRUE, rows |-> f.rows]
         IN IF outcome = "row_err" THEN [file |-> opened, ok |-> FALSE]
            ELSE [file |-> [exists |-> TRUE,
                            rows |-> Append(f.rows, format_output(result))],
                  ok |-> TRUE]

write_csv_result(result, f, outcome) ==
    LET file_exists == f.exists
    IN IF outcome = "open_err" THEN [file |-> f, ok |-> FALSE]
       ELSE LET opened == [exists |-> TRUE, rows |-> f.rows]
            IN IF ~file_exists /\ outcome = "header_err"
               THEN [file |-> opened, ok |-> FALSE]
               ELSE LET headed == IF ~file_exists
                                  THEN [exists |-> TRUE,
                                        rows |-> Append(f.rows, HeaderRow)]
                                  ELSE opened
                    IN IF outcome = "row_err"
                       THEN [file |-> headed, ok |-> FALSE]
                       ELSE [file |-> [exists |-> TRUE,
                                       rows |-> Append(headed.rows,
                                                       format_csv(result))],
                             ok |-> TRUE]

Idle == [s \in Slots |-> "todo"]
NoRes == [s \in Slots |-> None]

InitCommon ==
    /\ mpc = "start"
    /\ poolConfigured = FALSE
    /\ found = FALSE
    /\ attempts = 0
    /\ chanOpen = FALSE
    /\ chan = <<>>
    /\ txMain = FALSE
    /\ txSearch = FALSE
    /\ rxAlive = FALSE
    /\ spc = "none"
    /\ batches = 0
    /\ slot = [s \in Slots |-> "done"]
    /\ res = NoRes
    /\ results = <<>>
    /\ wpc = [w \in Workers |-> "idle"]
    /\ wslot = [w \in Workers |-> 0]
    /\ opc = "none"
    /\ records = <<>>
    /\ genCalls = 0
    /\ genMatching = 0
    /\ genErrs = 0
    /\ sendCalls = 0
    /\ sendLost = 0

Init ==
    /\ args \in ArgSets
    /\ InitCommon
    /\ matcher = <<>>
    /\ file = NoFile
    /\ fnIn = None
    /\ fnOut = None

mainVars == <<mpc, poolConfigured, matcher, chanOpen, txMain>>
searchVars == <<spc, batches, results, txSearch, sendCalls, sendLost>>
workerVars == <<slot, res, wpc, wslot, genCalls, genMatching, genErrs>>
outputVars == <<opc, records, rxAlive, file>>
fnVars == <<args, fnIn, fnOut>>

(***************************************************************************)
(* main                                                                    *)
(***************************************************************************)
MainValidate_FirstOnly ==
    /\ mpc = "start"
    /\ mpc' = IF args.patterns = <<>> \/ ~validate_bech32_chars(args.patterns[1])
              THEN "exit1"
              ELSE "validated"
    /\ UNCHANGED <<poolConfigured, matcher, chanOpen, txMain, found, attempts,
                   chan, searchVars, workerVars, outputVars, fnVars>>

\* main, from collect_patterns to the end of the validation loop
MainValidate ==
    /\ mpc = "start"
    /\ mpc' = IF args.patterns = <<>>
              THEN "exit1"
              ELSE IF \E i \in 1..Len(args.patterns) :
                          ~validate_bech32_chars(args.patterns[i])
              THEN "exit1"
              ELSE "validated"
    /\ UNCHANGED <<poolConfigured, matcher, chanOpen, txMain, found, attempts,
                   chan, searchVars, workerVars, outputVars, fnVars>>

\* main: args.estimate, estimate_patterns and return Ok
MainEstimate ==
    /\ mpc = "validated"
    /\ args.estimate
    /\ mpc' = "estimated"
    /\ UNCHANGED <<poolConfigured, matcher, chanOpen, txMain, found, attempts,
                   chan, searchVars, workerVars, outputVars, fnVars>>

\* main: the pool, the matcher, and run_search up to unbounded()
MainStart ==
    /\ mpc = "validated"
    /\ ~args.estimate
    /\ poolConfigured' = TRUE
    /\ matcher' = from_strings(args.patterns, args.match_type, args.case_sensitive)
    /\ found' = FALSE
    /\ attempts' = 0
    /\ chanOpen' = TRUE
    /\ txMain' = TRUE
    /\ rxAlive' = TRUE
    /\ mpc' = "spawn_search"
    /\ UNCHANGED <<chan, searchVars, workerVars, opc, records, file, fnVars>>

\* run_search: spawn of the search thread (tx.clone() moves into it)
SpawnSearch ==
    /\ mpc = "spawn_search"
    /\ txSearch' = TRUE
    /\ spc' = "top"
    /\ mpc' = "spawn_output"
    /\ UNCHANGED <<poolConfigured, matcher, chanOpen, txMain, found, attempts,
                   chan, batches, results, sendCalls, sendLost, workerVars,
                   outputVars, fnVars>>

\* run_search: spawn of the output thread (rx moves into it)
SpawnOutput ==
    /\ mpc = "spawn_output"
    /\ opc' = "recv"
    /\ mpc' = IF args.quiet THEN "join_search" ELSE "monitor"
    /\ UNCHANGED <<poolConfigured, matcher, chanOpen, txMain, found, attempts,
                   chan, searchVars, workerVars, records, rxAlive, file,
                   fnVars>>

\* monitor loop: one iteration that goes on. It loads attempts and sets the
\* progress bar's message and prefix, which nothing else reads, and sleeps:
\* no modelled state changes.
MonitorTick ==
    /\ mpc = "monitor"
    /\ ~found \/ args.continuous
    /\ UNCHANGED vars

\* monitor loop: pb.elapsed() > 3600 s in continuous mode. Time is not
\* modelled: the ceiling may be found passed at any iteration.
MonitorCeiling ==
    /\ mpc = "monitor"
    /\ ~found \/ args.continuous
    /\ args.continuous
    /\ mpc' = "drop_tx"
    /\ UNCHANGED <<poolConfigured, matcher, chanOpen, txMain, found, attempts,
                   chan, searchVars, workerVars, outputVars, fnVars>>

\* monitor loop: the while condition is false
MonitorExit ==
    /\ mpc = "monitor"
    /\ ~(~found \/ args.continuous)
    /\ mpc' = "drop_tx"
    /\ UNCHANGED <<poolConfigured, matcher, chanOpen, txMain, found, attempts,
                   chan, searchVars, workerVars, outputVars, fnVars>>

\* quiet mode: search_handle.join()
MainJoinSearch ==
    /\ mpc = "join_search"
    /\ spc = "done"
    /\ mpc' = "drop_tx"
    /\ UNCHANGED <<poolConfigured, matcher, chanOpen, txMain, found, attempts,
                   chan, searchVars, workerVars, outputVars, fnVars>>

\* drop(tx)
MainDropTx ==
    /\ mpc = "drop_tx"
    /\ txMain' = FALSE
    /\ mpc' = "join_output"
    /\ UNCHANGED <<poolConfigured, matcher, chanOpen, found, attempts, chan,
                   searchVars, workerVars, outputVars, fnVars>>

\* output_handle.join() and Ok(()). In non-quiet mode search_handle was never
\* joined: the search thread is detached and may still be running here.
MainJoinOutput ==
    /\ mpc = "join_output"
    /\ opc = "done"
    /\ mpc' = "returned"
    /\ UNCHANGED <<poolConfigured, matcher, chanOpen, txMain, found, attempts,
                   chan, searchVars, workerVars, outputVars, fnVars>>

MainStep ==
    \/ MainValidate
    \/ MainEstimate
    \/ MainStart
    \/ SpawnSearch
    \/ SpawnOutput
    \/ MonitorTick
    \/ MonitorCeiling
    \/ MonitorExit
    \/ MainJoinSearch
    \/ MainDropTx
    \/ MainJoinOutput

(***************************************************************************)
(* The search thread and the rayon workers of its batch.                   *)
(***************************************************************************)
\* loop top: if !continuous && found { break }; the closure ends and its
\* Sender clone is dropped
SearchExit ==
    /\ spc = "top"
    /\ ~args.continuous /\ found
    /\ spc' = "done"
    /\ txSearch' = FALSE
    /\ UNCHANGED <<mainVars, found, attempts, chan, batches, results,
                   sendCalls, sendLost, workerVars, outputVars, fnVars>>

SearchStartBatch_ResetsFound ==
    /\ spc = "top"
    /\ ~(~args.continuous /\ found)
    /\ attempts + BatchSize <= MaxAttempts
    /\ batches' = batches + 1
    /\ slot' = Idle
    /\ res' = NoRes
    /\ spc' = "batch"
    /\ found' = FALSE
    /\ UNCHANGED <<mainVars, attempts, chan, results, txSearch,
                   sendCalls, sendLost, wpc, wslot, genCalls, genMatching,
                   genErrs, outputVars, fnVars>>

\* loop top: a new batch (0..batch_size).into_par_iter() starts
SearchStartBatch ==
    /\ spc = "top"
    /\ ~(~args.continuous /\ found)
    /\ attempts + BatchSize <= MaxAttempts
    /\ batches' = batches + 1
    /\ slot' = Idle
    /\ res' = NoRes
    /\ spc' = "batch"
    /\ UNCHANGED <<mainVars, found, attempts, chan, results, txSearch,
                   sendCalls, sendLost, wpc, wslot, genCalls, genMatching,
                   genErrs, outputVars, fnVars>>

WorkerStart_Racy(w) ==
    /\ spc = "batch"
    /\ wpc[w] = "idle"
    /\ \E i \in Slots :
        /\ slot[i] = "todo"
        /\ IF ~args.continuous /\ found
           THEN /\ slot' = [slot EXCEPT ![i] = "done"]
                /\ UNCHANGED <<wpc, wslot, attempts>>
           ELSE /\ slot' = [slot EXCEPT ![i] = "run"]
                /\ attempts' = IF \E v \in Workers \ {w} : wpc[v] = "gen"
                               THEN attempts
                               ELSE attempts + 1
                /\ wpc' = [wpc EXCEPT ![w] = "gen"]
                /\ wslot' = [wslot EXCEPT ![w] = i]
    /\ UNCHANGED <<mainVars, found, chan, searchVars, res, genCalls,
                   genMatching, genErrs, outputVars, fnVars>>

\* A pool worker takes an index of the batch and runs the closure up to
\* NostrKeyPair::generate: the found check, which skips the index, and
\* attempts.fetch_add(1, Ordering::Relaxed). The u64 cannot wrap within
\* MaxAttempts increments.
WorkerStart(w) ==
    /\ spc = "batch"
    /\ wpc[w] = "idle"
    /\ \E i \in Slots :
        /\ slot[i] = "todo"
        /\ IF ~args.continuous /\ found
           THEN /\ slot' = [slot EXCEPT ![i] = "done"]
                /\ UNCHANGED <<wpc, wslot, attempts>>
           ELSE /\ slot' = [slot EXCEPT ![i] = "run"]
                /\ attempts' = attempts + 1
                /\ wpc' = [wpc EXCEPT ![w] = "gen"]
                /\ wslot' = [wslot EXCEPT ![w] = i]
    /\ UNCHANGED <<mainVars, found, chan, searchVars, res, genCalls,
                   genMatching, genErrs, outputVars, fnVars>>

\* The closure's result for one outcome of NostrKeyPair::generate. The
\* fields at, batch and slot are history: the counter when the match was
\* found and the place of the candidate.
ClosureResult(out, i) ==
    IF ~out.ok THEN None
    ELSE LET pattern == find_match(matcher, out.npub)
         IN IF pattern = None THEN None
            ELSE [keypair |-> out.npub, pattern |-> pattern, at |-> attempts,
                  batch |-> batches, slot |-> i]

WorkerGen_ErrUncounted(w) ==
    /\ wpc[w] = "gen"
    /\ \E out \in GenOutcomes :
        /\ res' = [res EXCEPT ![wslot[w]] = ClosureResult(out, wslot[w])]
        /\ genMatching' = genMatching +
              (IF out.ok /\ \E k \in 1..Len(matcher) : PatternMatches(matcher[k], out.npub)
               THEN 1 ELSE 0)
        /\ genErrs' = genErrs + (IF out.ok THEN 0 ELSE 1)
        /\ attempts' = IF out.ok THEN attempts ELSE attempts - 1
    /\ genCalls' = genCalls + 1
    /\ slot' = [slot EXCEPT ![wslot[w]] = "done"]
    /\ wpc' = [wpc EXCEPT ![w] = "idle"]
    /\ wslot' = [wslot EXCEPT ![w] = 0]
    /\ UNCHANGED <<mainVars, found, chan, searchVars, outputVars, fnVars>>

WorkerGen_StoresFound(w) ==
    /\ wpc[w] = "gen"
    /\ \E out \in GenOutcomes :
        /\ res' = [res EXCEPT ![wslot[w]] = ClosureResult(out, wslot[w])]
        /\ genMatching' = genMatching +
              (IF out.ok /\ \E k \in 1..Len(matcher) : PatternMatches(matcher[k], out.npub)
               THEN 1 ELSE 0)
        /\ genErrs' = genErrs + (IF out.ok THEN 0 ELSE 1)
        /\ found' = (found \/ ClosureResult(out, wslot[w]) # None)
    /\ genCalls' = genCalls + 1
    /\ slot' = [slot EXCEPT ![wslot[w]] = "done"]
    /\ wpc' = [wpc EXCEPT ![w] = "idle"]
    /\ wslot' = [wslot EXCEPT ![w] = 0]
    /\ UNCHANGED <<mainVars, attempts, chan, searchVars, outputVars, fnVars>>

\* NostrKeyPair::generate() and matcher.find_match
WorkerGen(w) ==
    /\ wpc[w] = "gen"
    /\ \E out \in GenOutcomes :
        /\ res' = [res EXCEPT ![wslot[w]] = ClosureResult(out, wslot[w])]
        /\ genMatching' = genMatching +
              (IF out.ok /\ \E k \in 1..Len(matcher) : PatternMatches(matcher[k], out.npub)
               THEN 1 ELSE 0)
        /\ genErrs' = genErrs + (IF out.ok THEN 0 ELSE 1)
    /\ genCalls' = genCalls + 1
    /\ slot' = [slot EXCEPT ![wslot[w]] = "done"]
    /\ wpc' = [wpc EXCEPT ![w] = "idle"]
    /\ wslot' = [wslot EXCEPT ![w] = 0]
    /\ UNCHANGED <<mainVars, found, attempts, chan, searchVars, outputVars,
                   fnVars>>

WorkerStep(w) == WorkerStart(w) \/ WorkerGen(w)

RECURSIVE CollectFrom_Reversed(_, _)
CollectFrom_Reversed(r, i) ==
    IF i > BatchSize THEN <<>>
    ELSE IF r[i] = None THEN CollectFrom_Reversed(r, i + 1)
    ELSE CollectFrom_Reversed(r, i + 1) \o <<r[i]>>

RECURSIVE CollectFrom(_, _)
\* filter_map(..).collect(): the Some results in index order
CollectFrom(r, i) ==
    IF i > BatchSize THEN <<>>
    ELSE IF r[i] = None THEN CollectFrom(r, i + 1)
    ELSE <<r[i]>> \o CollectFrom(r, i + 1)

\* the parallel iterator has run every index: results is collected
SearchCollect ==
    /\ spc = "batch"
    /\ \A i \in Slots : slot[i] = "done"
    /\ results' = CollectFrom(res, 1)
    /\ spc' = IF results' = <<>> THEN "top" ELSE "store"
    /\ UNCHANGED <<mainVars, found, attempts, chan, batches, txSearch,
                   sendCalls, sendLost, workerVars, outputVars, fnVars>>

SearchStoreFound_Skip ==
    /\ spc = "store"
    /\ spc' = "send"
    /\ UNCHANGED <<mainVars, found, attempts, chan, batches, results, txSearch,
                   sendCalls, sendLost, workerVars, outputVars, fnVars>>

\* for (keypair, pattern) in results: found.store(true, ..)
SearchStoreFound ==
    /\ spc = "store"
    /\ found' = TRUE
    /\ spc' = "send"
    /\ UNCHANGED <<mainVars, attempts, chan, batches, results, txSearch,
                   sendCalls, sendLost, workerVars, outputVars, fnVars>>

SearchSend_NoBreak ==
    /\ spc = "send"
    /\ IF rxAlive
       THEN chan' = Append(chan, Head(results)) /\ UNCHANGED sendLost
       ELSE sendLost' = sendLost + 1 /\ UNCHANGED chan
    /\ sendCalls' = sendCalls + 1
    /\ results' = Tail(results)
    /\ spc' = IF Tail(results) = <<>> THEN "top" ELSE "store"
    /\ UNCHANGED <<mainVars, found, attempts, batches, txSearch, workerVars,
                   outputVars, fnVars>>

SearchSend_AlwaysBreak ==
    /\ spc = "send"
    /\ IF rxAlive
       THEN chan' = Append(chan, Head(results)) /\ UNCHANGED sendLost
       ELSE sendLost' = sendLost + 1 /\ UNCHANGED chan
    /\ sendCalls' = sendCalls + 1
    /\ results' = <<>>
    /\ spc' = "top"
    /\ UNCHANGED <<mainVars, found, attempts, batches, txSearch, workerVars,
                   outputVars, fnVars>>

SearchSend_Prepends ==
    /\ spc = "send"
    /\ IF rxAlive
       THEN chan' = <<Head(results)>> \o chan /\ UNCHANGED sendLost
       ELSE sendLost' = sendLost + 1 /\ UNCHANGED chan
    /\ sendCalls' = sendCalls + 1
    /\ IF ~args.continuous
       THEN results' = <<>> /\ spc' = "top"
       ELSE /\ results' = Tail(results)
            /\ spc' = IF Tail(results) = <<>> THEN "top" ELSE "store"
    /\ UNCHANGED <<mainVars, found, attempts, batches, txSearch, workerVars,
                   outputVars, fnVars>>

\* let _ = tx.send((keypair, pattern)); if !continuous { break }
SearchSend ==
    /\ spc = "send"
    /\ IF rxAlive
       THEN chan' = Append(chan, Head(results)) /\ UNCHANGED sendLost
       ELSE sendLost' = sendLost + 1 /\ UNCHANGED chan
    /\ sendCalls' = sendCalls + 1
    /\ IF ~args.continuous
       THEN results' = <<>> /\ spc' = "top"
       ELSE /\ results' = Tail(results)
            /\ spc' = IF Tail(results) = <<>> THEN "top" ELSE "store"
    /\ UNCHANGED <<mainVars, found, attempts, batches, txSearch, workerVars,
                   outputVars, fnVars>>

SearchStep ==
    \/ SearchExit
    \/ SearchStartBatch
    \/ SearchCollect
    \/ SearchStoreFound
    \/ SearchSend

(***************************************************************************)
(* The output thread.                                                      *)
(***************************************************************************)
\* The VanityResult built from a received message. The fields at, batch
\* and slot are history carried over from the message.
OutputResult(msg) ==
    [keypair |-> msg.keypair,
     matched_pattern |-> msg.pattern,
     attempts |-> attempts,
     at |-> msg.at,
     batch |-> msg.batch,
     slot |-> msg.slot]

OutputTurn_StopsOnError ==
    /\ opc = "recv"
    /\ IF chan # <<>>
       THEN /\ records' = Append(records, OutputResult(Head(chan)))
            /\ chan' = Tail(chan)
            /\ \E o \in (IF ~args.output THEN {"ok"}
                          ELSE IF args.csv THEN CsvOutcomes(file)
                          ELSE TextOutcomes) :
                LET w == IF ~args.output THEN [file |-> file, ok |-> TRUE]
                         ELSE IF args.csv
                         THEN write_csv_result(OutputResult(Head(chan)), file, o)
                         ELSE write_result_to_file(OutputResult(Head(chan)),
                                                   file, o)
                IN /\ file' = w.file
                   /\ IF ~args.continuous \/ ~w.ok
                      THEN opc' = "done" /\ rxAlive' = FALSE
                      ELSE UNCHANGED <<opc, rxAlive>>
       ELSE /\ ~txMain /\ ~txSearch
            /\ opc' = "done"
            /\ rxAlive' = FALSE
            /\ UNCHANGED <<records, chan, file>>
    /\ UNCHANGED <<mainVars, found, attempts, searchVars, workerVars, fnVars>>

\* One turn of for (keypair, pattern) in rx. With a message: the loop body,
\* that is the VanityResult with attempts.load(), its output, the write to
\* args.output (let _ = drops the writer's Result) and the break of
\* single-shot mode (rx is dropped with the closure). With the channel
\* empty and every Sender dropped: the end of the iteration.
OutputTurn ==
    /\ opc = "recv"
    /\ IF chan # <<>>
       THEN /\ records' = Append(records, OutputResult(Head(chan)))
            /\ chan' = Tail(chan)
            /\ IF ~args.output
               THEN UNCHANGED file
               ELSE IF args.csv
               THEN \E o \in CsvOutcomes(file) :
                        file' = write_csv_result(OutputResult(Head(chan)),
                                                 file, o).file
               ELSE \E o \in TextOutcomes :
                        file' = write_result_to_file(OutputResult(Head(chan)),
                                                     file, o).file
            /\ IF ~args.continuous
               THEN opc' = "done" /\ rxAlive' = FALSE
               ELSE UNCHANGED <<opc, rxAlive>>
       ELSE /\ ~txMain /\ ~txSearch
            /\ opc' = "done"
            /\ rxAlive' = FALSE
            /\ UNCHANGED <<records, chan, file>>
    /\ UNCHANGED <<mainVars, found, attempts, searchVars, workerVars, fnVars>>

OutputStep == OutputTurn

Next ==
    \/ MainStep
    \/ SearchStep
    \/ \E w \in Workers : WorkerStep(w)
    \/ OutputStep

Spec == Init /\ [][Next]_vars

\* Every thread that can take a step eventually takes one (the OS scheduler
\* and the rayon pool run every runnable thread), and in continuous mode the
\* monitor's clock eventually passes the ceiling.
FairSpec ==
    /\ Spec
    /\ WF_vars(MainStep)
    /\ WF_vars(SearchStep)
    /\ \A w \in Workers : WF_vars(WorkerStep(w))
    /\ WF_vars(OutputStep)

(***************************************************************************)
(* validate_bech32_chars on its own: the input is drawn in the initial     *)
(* state and the function is applied once.                                 *)
(***************************************************************************)
NoArgs ==
    [patterns |-> <<>>, match_type |-> "Prefix", case_sensitive |-> FALSE,
     continuous |-> FALSE, quiet |-> FALSE, estimate |-> FALSE,
     output |-> FALSE, csv |-> FALSE]

StringsUpTo(chars, n) == UNION {[1..k -> chars] : k \in 0..n}

\* valid characters, and characters outside the alphabet: a digit, three
\* lowercase letters and an uppercase letter
ValidateChars == {"a", "z", "0", "1", "b", "i", "o", "T"}

InitValidate ==
    /\ args = NoArgs
    /\ InitCommon
    /\ matcher = <<>>
    /\ file = NoFile
    /\ fnIn \in [s : StringsUpTo(ValidateChars, MaxStrLen)]
    /\ fnOut = None

ApplyValidate ==
    /\ fnOut = None
    /\ fnOut' = [val |-> validate_bech32_chars(fnIn.s)]
    /\ UNCHANGED <<mainVars, found, attempts, chan, searchVars, workerVars,
                   outputVars, args, fnIn>>

SpecValidate == InitValidate /\ [][ApplyValidate]_vars

(***************************************************************************)
(* PatternMatcher::find_match on its own: the pattern values, the match    *)
(* type, the case flag and the identifier are drawn in the initial state,  *)
(* the matcher is built by from_strings and find_match is applied once.    *)
(***************************************************************************)
MatchValues ==
    { <<"a">>, <<"c">>, <<"A">>, <<"u">>, <<"a", "c">>, <<"c", "a">>, <<"A", "c">> }

MatchChars == {"a", "c", "A"}

MatchInputs ==
    [values : UNION {[1..k -> MatchValues] : k \in 0..MaxPatterns},
     match_type : MatchTypes,
     case_sensitive : BOOLEAN,
     npub : {Npub1 \o d : d \in [1..DataLen -> MatchChars]}]

InitMatch ==
    /\ args = NoArgs
    /\ InitCommon
    /\ file = NoFile
    /\ fnIn \in MatchInputs
    /\ matcher = from_strings(fnIn.values, fnIn.match_type, fnIn.case_sensitive)
    /\ fnOut = None

ApplyFindMatch ==
    /\ fnOut = None
    /\ fnOut' = [val |-> find_match(matcher, fnIn.npub)]
    /\ UNCHANGED <<mainVars, found, attempts, chan, searchVars, workerVars,
                   outputVars, args, fnIn>>

SpecMatch == InitMatch /\ [][ApplyFindMatch]_vars

(***************************************************************************)
(* The run with a panic in the search: the closure of a batch index panics *)
(* inside the parallel iterator, rayon resumes the panic in the search     *)
(* thread once the other workers are back, and the thread unwinds, which   *)
(* drops its Sender clone. Nothing in the closure is known to panic; the   *)
(* action is there for what run_search does after one.                     *)
(***************************************************************************)
SearchPanic ==
    /\ spc = "batch"
    /\ \E w \in Workers :
        /\ wpc[w] = "gen"
        /\ \A v \in Workers \ {w} : wpc[v] = "idle"
    /\ wpc' = [w \in Workers |-> "idle"]
    /\ wslot' = [w \in Workers |-> 0]
    /\ slot' = [i \in Slots |-> "done"]
    /\ spc' = "panicked"
    /\ txSearch' = FALSE
    /\ UNCHANGED <<mainVars, found, attempts, chan, batches, results,
                   sendCalls, sendLost, res, genCalls, genMatching, genErrs,
                   outputVars, fnVars>>

\* quiet mode: search_handle.join() returns Err and unwrap() panics in main
MainJoinSearchPanicked ==
    /\ mpc = "join_search"
    /\ spc = "panicked"
    /\ mpc' = "panicked"
    /\ UNCHANGED <<poolConfigured, matcher, chanOpen, txMain, found, attempts,
                   chan, searchVars, workerVars, outputVars, fnVars>>

FaultNext ==
    \/ Next
    \/ SearchPanic
    \/ MainJoinSearchPanicked

FaultSpec == Init /\ [][FaultNext]_vars

(***************************************************************************)
(* The writers of the output target on their own: the target before the   *)
(* first write and the format are drawn in the initial state, and up to    *)
(* MaxWrites results are written, each write with any of its outcomes.     *)
(* fnIn keeps whether the target existed before the first write, fnOut     *)
(* counts the calls and those that returned Ok.                            *)
(***************************************************************************)
\* the target before the first write: absent, empty, or with earlier content
SinkTargets ==
    {NoFile,
     [exists |-> TRUE, rows |-> <<>>],
     [exists |-> TRUE, rows |-> <<[kind |-> "old"]>>]}

SinkResults ==
    [keypair : {Npub1 \o <<"a", "c">>},
     matched_pattern : {<<"a">>},
     attempts : 1..2]

InitSink ==
    /\ args \in {[NoArgs EXCEPT !.output = TRUE, !.csv = c] : c \in BOOLEAN}
    /\ InitCommon
    /\ matcher = <<>>
    /\ file \in SinkTargets
    /\ fnIn = [existed |-> file.exists]
    /\ fnOut = [calls |-> 0, oks |-> 0]

SinkWriteCsv ==
    /\ args.csv
    /\ fnOut.calls < MaxWrites
    /\ \E result \in SinkResults, o \in CsvOutcomes(file) :
        LET w == write_csv_result(result, file, o)
        IN /\ file' = w.file
           /\ fnOut' = [calls |-> fnOut.calls + 1,
                        oks |-> fnOut.oks + (IF w.ok THEN 1 ELSE 0)]
    /\ UNCHANGED <<mainVars, found, attempts, chan, searchVars, workerVars,
                   opc, records, rxAlive, args, fnIn>>

SinkWriteText ==
    /\ ~args.csv
    /\ fnOut.calls < MaxWrites
    /\ \E result \in SinkResults, o \in TextOutcomes :
        LET w == write_result_to_file(result, file, o)
        IN /\ file' = w.file
           /\ fnOut' = [calls |-> fnOut.calls + 1,
                        oks |-> fnOut.oks + (IF w.ok THEN 1 ELSE 0)]
    /\ UNCHANGED <<mainVars, found, attempts, chan, searchVars, workerVars,
                   opc, records, rxAlive, args, fnIn>>

SpecSink == InitSink /\ [][SinkWriteCsv \/ SinkWriteText]_vars

(***************************************************************************)
(* estimate_time on its own: the pattern length and the rate are drawn in  *)
(* the initial state and the function is applied once. The f64 values are  *)
(* kept as exact fractions: 32^L is a power of two and exact in f64, and   *)
(* for the lengths and the whole rates drawn here no quotient lies within  *)
(* an f64 rounding error of a threshold, so the comparisons are those of   *)
(* the exact values. Lengths stop at 6: 32^7 is beyond TLC's integers.     *)
(***************************************************************************)
AlphabetSize == 32
SecondsPerMinute == 60
SecondsPerHour == 3600
SecondsPerDay == 86400
SecondsPerYear == 31536000

EstimateLengths == 0..6

RECURSIVE powi(_, _)
powi(b, n) == IF n = 0 THEN 1 ELSE b * powi(b, n - 1)

\* the whole number nearest to the fraction a / b, a tie to the even one
RoundHalfEven(a, b) ==
    LET q == a \div b
        r == a % b
    IN IF 2 * r > b \/ (2 * r = b /\ q % 2 = 1) THEN q + 1 ELSE q

\* {:.1} of seconds / unit, with seconds the fraction num / den: the tenths
\* of the nearest tenth. Every unit but 1 is a multiple of 10: the factor 10
\* of the tenths is taken out of the unit, which keeps the products within
\* TLC's integers.
FormatScaled(num, den, unit) ==
    IF unit = 1 THEN RoundHalfEven(10 * num, den)
    ELSE RoundHalfEven(num, den * (unit \div 10))

estimate_time_NoHalf(pattern_length, keys_per_sec) ==
    LET possibilities == powi(AlphabetSize, pattern_length)
        num == possibilities
        den == keys_per_sec
    IN IF num < SecondsPerMinute * den
       THEN [unit |-> "seconds", tenths |-> FormatScaled(num, den, 1)]
       ELSE IF num < SecondsPerHour * den
       THEN [unit |-> "minutes",
             tenths |-> FormatScaled(num, den, SecondsPerMinute)]
       ELSE IF num < SecondsPerDay * den
       THEN [unit |-> "hours",
             tenths |-> FormatScaled(num, den, SecondsPerHour)]
       ELSE IF num < SecondsPerYear * den
       THEN [unit |-> "days",
             tenths |-> FormatScaled(num, den, SecondsPerDay)]
       ELSE [unit |-> "years",
             tenths |-> FormatScaled(num, den, SecondsPerYear)]

\* expected_attempts is possibilities / 2 and seconds is expected_attempts /
\* keys_per_sec: seconds is the fraction num / den below
estimate_time(pattern_length, keys_per_sec) ==
    LET possibilities == powi(AlphabetSize, pattern_length)
        num == possibilities
        den == 2 * keys_per_sec
    IN IF num < SecondsPerMinute * den
       THEN [unit |-> "seconds", tenths |-> FormatScaled(num, den, 1)]
       ELSE IF num < SecondsPerHour * den
       THEN [unit |-> "minutes",
             tenths |-> FormatScaled(num, den, SecondsPerMinute)]
       ELSE IF num < SecondsPerDay * den
       THEN [unit |-> "hours",
             tenths |-> FormatScaled(num, den, SecondsPerHour)]
       ELSE IF num < SecondsPerYear * den
       THEN [unit |-> "days",
             tenths |-> FormatScaled(num, den, SecondsPerDay)]
       ELSE [unit |-> "years",
             tenths |-> FormatScaled(num, den, SecondsPerYear)]

InitEstimate ==
    /\ args = NoArgs
    /\ InitCommon
    /\ matcher = <<>>
    /\ file = NoFile
    /\ fnIn \in [pattern_length : EstimateLengths, keys_per_sec : 1..MaxRate]
    /\ fnOut = None

ApplyEstimate ==
    /\ fnOut = None
    /\ fnOut' = [val |-> estimate_time(fnIn.pattern_length, fnIn.keys_per_sec)]
    /\ UNCHANGED <<mainVars, found, attempts, chan, searchVars, workerVars,
                   outputVars, args, fnIn>>

SpecEstimate == InitEstimate /\ [][ApplyEstimate]_vars

(***************************************************************************)
(* Properties.                                                             *)
(***************************************************************************)
\* the results of the current batch that are a match
BatchMatches == {i \in Slots : res[i] # None}

\* workers between attempts.fetch_add and the end of generate
MidCandidate == {w \in Workers : wpc[w] = "gen"}

\* C1: in single-shot mode at most one MatchEvent is ever sent, the output
\* thread emits at most one record, it has stopped consuming exactly when it
\* has emitted one, and nothing is left in the channel then, even when several
\* candidates of one batch match.
C1_SingleShotOneEvent ==
    ~args.continuous =>
        /\ sendCalls <= 1
        /\ sendLost = 0
        /\ Len(chan) + Len(records) = sendCalls
        /\ (opc = "done") <=> (Len(records) = 1)
        /\ (opc = "done") => (~rxAlive /\ chan = <<>>)

C1_Witness ==
    /\ ~args.continuous
    /\ Cardinality(BatchMatches) >= 2
    /\ Len(records) = 1
    /\ opc = "done"
    /\ spc = "done"

\* C2: in single-shot mode, quiet or not, once a candidate has matched the run
\* terminates: the search loop exits without starting another batch, the match
\* is delivered (no send fails), the output loop exits and run_search returns.
C2_SingleShotTerminates ==
    (~args.continuous /\ genMatching > 0) ~>
        (/\ mpc = "returned"
         /\ spc = "done"
         /\ opc = "done"
         /\ sendLost = 0
         /\ Len(records) = 1
         /\ records[1].batch = batches)

\* the main thread has dropped its Sender before the search thread sends
C2_Witness ==
    /\ ~args.continuous
    /\ ~args.quiet
    /\ genMatching > 0
    /\ spc = "send"
    /\ ~txMain
    /\ mpc = "join_output"

\* C3: in continuous mode, once the stop is triggered (the monitor's ceiling
\* has ended the monitor loop) every Sender is eventually dropped, the output
\* loop terminates and run_search returns.
C3_StopClosesChannel ==
    (args.continuous /\ mpc \in {"drop_tx", "join_output"}) ~>
        (~txMain /\ ~txSearch /\ opc = "done" /\ mpc = "returned")

\* the main thread waits in output_handle.join() while the search thread,
\* which loops on, still holds its Sender
C3_Witness ==
    /\ args.continuous
    /\ mpc = "join_output"
    /\ txSearch
    /\ spc = "top"
    /\ opc = "recv"
    /\ chan = <<>>

\* C4: run_search returns Ok only after the search thread, the workers of its
\* batch and the output thread have terminated.
C4_JoinedBeforeOk ==
    (mpc = "returned") =>
        (spc = "done" /\ opc = "done" /\ \A w \in Workers : wpc[w] = "idle")

\* C5: in continuous mode, whenever the search loop is between batches, every
\* slot of every batch so far has generated a candidate, the number of sends
\* equals the number of generated candidates some pattern matches, no send
\* has failed, and every sent event is in the channel or has been emitted.
C5_ContinuousForwardsAll ==
    (args.continuous /\ spc = "top") =>
        /\ genCalls = batches * BatchSize
        /\ sendCalls = genMatching
        /\ sendLost = 0
        /\ Len(chan) + Len(records) = genMatching

C5_Witness ==
    /\ args.continuous
    /\ spc = "top"
    /\ batches = 2
    /\ genMatching = 3
    /\ Len(records) = 3
    /\ records[1].batch = 1
    /\ records[3].batch = 2

\* the collected pattern list is empty or holds an invalid pattern
BadPatterns ==
    \/ args.patterns = <<>>
    \/ \E i \in 1..Len(args.patterns) :
          \E j \in 1..Len(args.patterns[i]) :
              args.patterns[i][j] \notin
                  {"0", "2", "3", "4", "5", "6", "7", "8", "9", "a", "c", "d",
                   "e", "f", "g", "h", "j", "k", "l", "m", "n", "p", "q", "r",
                   "s", "t", "u", "v", "w", "x", "y", "z"}

\* C6: with an empty or invalid pattern list the process exits with status 1
\* at the validation, before the pool is configured: no channel, no thread,
\* no candidate, attempts 0 and found false.
C6_InvalidInputStops ==
    BadPatterns =>
        /\ mpc \in {"start", "exit1"}
        /\ ~poolConfigured
        /\ ~chanOpen
        /\ spc = "none" /\ opc = "none"
        /\ attempts = 0 /\ ~found
        /\ genCalls = 0

\* one invalid pattern after a valid one
C6_Witness ==
    /\ Len(args.patterns) = 2
    /\ validate_bech32_chars(args.patterns[1])
    /\ ~validate_bech32_chars(args.patterns[2])
    /\ mpc = "exit1"

\* s with its first five characters removed
Drop5(s) == [i \in 1..(Len(s) - 5) |-> s[i + 5]]

\* the comparison string of pattern p for identifier npub
CompareStr(p, npub) ==
    IF p.case_sensitive
    THEN Drop5(npub)
    ELSE [i \in 1..(Len(npub) - 5) |-> LowerChar(npub[i + 5])]

\* c is u \o v \o t for some strings u and t
Occurs(c, v, us, ts) ==
    \E i \in us : \E j \in ts :
        /\ i <= j
        /\ c = SubSeq(c, 1, i) \o v \o SubSeq(c, j + 1, Len(c))

\* the rule of pattern p on comparison string c
RuleHolds(p, c) ==
    CASE p.match_type = "Prefix" -> Occurs(c, p.value, {0}, 0..Len(c))
      [] p.match_type = "Suffix" -> Occurs(c, p.value, 0..Len(c), {Len(c)})
      [] p.match_type = "Contains" -> Occurs(c, p.value, 0..Len(c), 0..Len(c))

\* C7: find_match returns the first pattern of the list whose rule (Prefix:
\* starts with value, Suffix: ends with value, Contains: value occurs) holds on
\* the identifier without its first 5 characters, lowercased when the pattern
\* is not case-sensitive, and None when no pattern's rule holds.
C7_FindMatchFirst ==
    fnOut # None =>
        LET holds(i) == RuleHolds(matcher[i], CompareStr(matcher[i], fnIn.npub))
        IN \/ /\ fnOut.val = None
              /\ \A i \in 1..Len(matcher) : ~holds(i)
           \/ \E i \in 1..Len(matcher) :
                /\ fnOut.val = matcher[i]
                /\ holds(i)
                /\ \A j \in 1..(i - 1) : ~holds(j)

\* both patterns, lowercased by Pattern::new, hold on "Ac" lowercased: the
\* first of the list is returned
C7_Witness ==
    /\ fnOut # None
    /\ fnIn.values = << <<"A">>, <<"a", "c">> >>
    /\ fnIn.match_type = "Prefix"
    /\ ~fnIn.case_sensitive
    /\ fnIn.npub = Npub1 \o <<"A", "c">>
    /\ fnOut.val = [value |-> <<"a">>, match_type |-> "Prefix",
                    case_sensitive |-> FALSE]

Alphabet32 ==
    {"0", "2", "3", "4", "5", "6", "7", "8", "9", "a", "c", "d", "e", "f",
     "g", "h", "j", "k", "l", "m", "n", "p", "q", "r", "s", "t", "u", "v",
     "w", "x", "y", "z"}

\* C8: validate_bech32_chars accepts a string exactly when each of its
\* characters is one of the 32 symbols 023456789acdefghjklmnpqrstuvwxyz.
C8_ValidateIffAlphabet ==
    /\ Cardinality(Alphabet32) = 32
    /\ fnOut # None =>
          (fnOut.val <=> \A i \in 1..Len(fnIn.s) : fnIn.s[i] \in Alphabet32)

\* a string with one character outside the alphabet is rejected
C8_Witness ==
    /\ fnOut # None
    /\ fnIn.s = <<"a", "b", "z">>
    /\ fnOut.val = FALSE

\* C9: attempts equals the number of generate calls made plus the workers that
\* have incremented it and not yet finished their candidate: whenever no
\* worker is mid-candidate, attempts is the number of generation attempts.
C9_AttemptsCountsGenerations ==
    attempts = genCalls + Cardinality(MidCandidate)

\* two batches are over: some candidate matched and some did not
C9_Witness ==
    /\ MidCandidate = {}
    /\ attempts = 4
    /\ genCalls = 4
    /\ genMatching \in 1..3

\* C10: the attempts of every emitted record is the value the counter had when
\* the worker found the match.
C10_AttemptsAtDiscovery ==
    \A k \in 1..Len(records) : records[k].attempts = records[k].at

\* C11: an internal coordination failure, a send on the channel whose
\* receiver is gone or a panic of the search thread or of a worker, is
\* surfaced as a failure of the run: run_search does not return Ok after
\* one.
C11_FailureSurfaced ==
    (spc = "panicked" \/ sendLost > 0) => mpc # "returned"

\* C12: attempts never decreases from one step to the next, and found never
\* goes back from true to false.
C12_Monotone ==
    [][attempts' >= attempts /\ (found => found')]_vars

\* the flag is set and the counter still moves: a later batch of the
\* continuous mode is running
C12_Witness ==
    /\ found
    /\ attempts > BatchSize
    /\ spc = "batch"

\* the rows of the output target that are a header, and those that are a
\* record
HeaderRows == {k \in 1..Len(file.rows) : file.rows[k].kind = "header"}
RecordRows == {k \in 1..Len(file.rows) : file.rows[k].kind = "record"}

\* C13: for any sequence of writes to one CSV target, the header row is
\* never written if the target existed before the first write; if it did
\* not, the header is written exactly once and before the first record;
\* and every write that returns Ok has appended exactly one record row.
C13_HeaderOnce ==
    args.csv =>
        /\ fnIn.existed => HeaderRows = {}
        /\ Cardinality(HeaderRows) <= 1
        /\ ~fnIn.existed /\ fnOut.oks >= 1 =>
              /\ Cardinality(HeaderRows) = 1
              /\ \A h \in HeaderRows, r \in RecordRows : h < r
        /\ Cardinality(RecordRows) = fnOut.oks

\* the seconds of one unit of estimate_time's answer
UnitSeconds(u) ==
    CASE u = "seconds" -> 1
      [] u = "minutes" -> 60
      [] u = "hours" -> 3600
      [] u = "days" -> 86400
      [] u = "years" -> 31536000

\* C14: estimate_time(L, rate) takes 32^L / 2 expected attempts and
\* seconds = expected attempts / rate, and reports seconds below 60 s,
\* minutes below 3600 s, hours below 86400 s, days below 31536000 s and
\* years from there on; the number reported is seconds over the unit, to
\* the nearest tenth. With N = 32^L, seconds is N / (2 * rate).
C14_EstimateBuckets ==
    fnOut # None =>
        LET N == 2 ^ (5 * fnIn.pattern_length)
            D == 2 * fnIn.keys_per_sec
            v == fnOut.val
            u == UnitSeconds(v.unit)
        IN /\ (v.unit = "seconds") <=> (N < 60 * D)
           /\ (v.unit = "minutes") <=> (60 * D <= N /\ N < 3600 * D)
           /\ (v.unit = "hours") <=> (3600 * D <= N /\ N < 86400 * D)
           /\ (v.unit = "days") <=> (86400 * D <= N /\ N < 31536000 * D)
           /\ (v.unit = "years") <=> (31536000 * D <= N)
           /\ IF u = 1
              THEN /\ 2 * (10 * N - v.tenths * D) <= D
                   /\ 2 * (v.tenths * D - 10 * N) <= D
              ELSE /\ 2 * (N - v.tenths * D * (u \div 10)) <= D * (u \div 10)
                   /\ 2 * (v.tenths * D * (u \div 10) - N) <= D * (u \div 10)

\* 32^2 / 2 = 512 expected attempts at 1 key per second: "8.5 minutes"
C14_Witness ==
    /\ fnOut # None
    /\ fnIn = [pattern_length |-> 2, keys_per_sec |-> 1]
    /\ fnOut.val = [unit |-> "minutes", tenths |-> 85]

\* C15: in single-shot mode found is set at the moment a worker's candidate
\* matches, inside the batch, so that the slots of the batch examined later
\* are skipped: while the batch runs, a match among its results means found
\* is set.
C15_FoundSetInBatch ==
    (~args.continuous /\ spc = "batch" /\ BatchMatches # {}) => found

\* the lowest index of the batch with a match
LowestMatch == CHOOSE i \in BatchMatches : \A j \in BatchMatches : i <= j

\* C16: in single-shot mode, whatever the order in which the workers ran the
\* slots, the event that is sent and the record that is emitted are those
\* of the lowest matching index of the batch.
C16_LowestIndexWins ==
    ~args.continuous =>
        /\ \A k \in 1..Len(chan) :
              /\ chan[k].slot = LowestMatch
              /\ chan[k].keypair = res[LowestMatch].keypair
        /\ \A k \in 1..Len(records) :
              /\ records[k].slot = LowestMatch
              /\ records[k].keypair = res[LowestMatch].keypair
              /\ records[k].batch = batches

\* two slots of the batch match, the higher one was found first, and the
\* record is the lower one
C16_Witness ==
    /\ ~args.continuous
    /\ Len(records) = 1
    /\ Cardinality(BatchMatches) >= 2
    /\ \E j \in BatchMatches : res[j].at < res[LowestMatch].at

\* C17: a generation that fails is absorbed. The step in which generate
\* returns Err leaves the attempts counter as it is, the attempt being
\* counted already, gives the slot the result None and ends the slot only:
\* found, the channel, the emitted records, the output target and the
\* positions of the search, the output thread and main are unchanged, and
\* the other slots stay as they are. At the loop top every slot of every
\* batch started so far has made its generate call.
C17_GenFailureAbsorbed ==
    /\ [][genErrs' # genErrs =>
            /\ genErrs' = genErrs + 1
            /\ genCalls' = genCalls + 1
            /\ attempts' = attempts
            /\ attempts' = genCalls' + Cardinality(MidCandidate')
            /\ \E w \in Workers :
                  /\ wpc[w] = "gen"
                  /\ wpc' = [wpc EXCEPT ![w] = "idle"]
                  /\ res' = [res EXCEPT ![wslot[w]] = None]
                  /\ slot' = [slot EXCEPT ![wslot[w]] = "done"]
            /\ UNCHANGED <<found, chan, records, file, results, spc, mpc, opc,
                           batches, sendCalls, sendLost, genMatching, txMain,
                           txSearch, rxAlive>>]_vars
    /\ [](spc = "top" => genCalls = batches * BatchSize)

\* all generations but the last one failed, a second batch ran after the
\* failures of the first, its match was emitted and run_search returned
C17_Witness ==
    /\ ~args.continuous
    /\ genErrs = 2 * BatchSize - 1
    /\ batches = 2
    /\ Len(records) = 1
    /\ mpc = "returned"

\* C18: in single-shot mode attempts is never incremented once found is
\* set, and every batch that starts runs all of its slots: once found is
\* set, and when the search loop has ended, attempts is the number of
\* batches started times the batch size, and the attempts of the emitted
\* record is that final value.
C18_SingleShotWholeBatches ==
    /\ [](~args.continuous =>
            /\ found =>
                  /\ attempts = batches * BatchSize
                  /\ genCalls = attempts
                  /\ spc \in {"send", "top", "done"}
            /\ spc = "done" => found /\ attempts % BatchSize = 0
            /\ \A k \in 1..Len(records) :
                  /\ found
                  /\ records[k].attempts = attempts)
    /\ [][~args.continuous /\ found => attempts' = attempts]_vars

\* the match was found before the last slot of the second batch was
\* counted, and the record carries the count of the two whole batches
C18_Witness ==
    /\ ~args.continuous
    /\ spc = "done"
    /\ Len(records) = 1
    /\ records[1].at < attempts
    /\ records[1].attempts = 2 * BatchSize

\* the place of a message or a record in the send order
Before(a, b) ==
    \/ a.batch < b.batch
    \/ a.batch = b.batch /\ a.slot < b.slot

\* C19: in continuous mode the attempts of successive records never
\* decrease, and the records are emitted in the order the events were sent:
\* batch by batch and, inside a batch, by increasing slot index. The
\* messages in flight follow the records in the same order.
C19_RecordsInOrder ==
    args.continuous =>
        /\ \A j, k \in 1..Len(records) :
              j < k => /\ records[j].attempts <= records[k].attempts
                       /\ Before(records[j], records[k])
        /\ \A j, k \in 1..Len(chan) : j < k => Before(chan[j], chan[k])
        /\ \A j \in 1..Len(records), k \in 1..Len(chan) :
              Before(records[j], chan[k])

\* three records of two batches, the later ones read at a higher count
C19_Witness ==
    /\ args.continuous
    /\ Len(records) = 3
    /\ records[1].attempts < records[3].attempts
    /\ records[1].batch = 1
    /\ records[2].batch = 1
    /\ records[3].batch = 2

\* the results the output target holds
StoredRows == {k \in 1..Len(file.rows) : file.rows[k].kind \in {"record", "block"}}

\* C20: a write of the record that fails changes nothing in the control
\* flow. The step that handles an event and stores nothing in the target
\* that is configured still takes the event off the channel and counts it
\* as emitted; the output thread then stops in single-shot mode and waits
\* for the next event in continuous mode; main and the search thread are
\* where they were.
C20_WriteFailureIgnored ==
    [][(records' # records /\ args.output /\ StoredRows' = StoredRows) =>
          /\ records' = Append(records, OutputResult(Head(chan)))
          /\ chan' = Tail(chan)
          /\ opc' = IF args.continuous THEN "recv" ELSE "done"
          /\ rxAlive' = args.continuous
          /\ UNCHANGED <<mpc, spc, found, attempts, results, batches,
                         txMain, txSearch, sendCalls, sendLost>>]_vars

\* single-shot mode with an output target: the record was emitted, nothing
\* was stored, and run_search returned Ok
C20_Witness ==
    /\ ~args.continuous
    /\ args.output
    /\ Len(records) = 1
    /\ StoredRows = {}
    /\ mpc = "returned"
====
